---- MODULE Spec2Model ----
(***************************************************************************)
(* A model of the CRM GraphQL backend: the three django-filter FilterSets  *)
(* (crm/filters.py) behind the allCustomers / allProducts / allOrders      *)
(* connection fields, and the customer and order mutations                 *)
(* (crm/schema.py) over the tables of crm/models.py.                       *)
(*                                                                         *)
(* Strings are sequences of one-character strings.  Timestamps are ticks.  *)
(* Prices are integer amounts of the smallest currency unit.  A queryset   *)
(* is the multiset of rows its SQL would return: a row count per primary   *)
(* key plus the DISTINCT flag of the query.                                *)
(***************************************************************************)
EXTENDS Integers, Sequences, FiniteSets, TLC

VARIABLES
    customers,   \* table crm_customer: id -> [name, email, phone, created_at]
    products,    \* table crm_product: id -> [name, price, stock]
    orders,      \* table crm_order + its products m2m: id -> [customer, products, total_amount, order_date]
    pc,          \* position of the query client: "idle" or "returned"
    entity,      \* entity of the last query ("Customer", "Product", "Order", or "none")
    req,         \* filter arguments of the last query: filter name -> raw value
    resp,        \* response of the last query
    txn          \* the mutation requests in flight: process -> its position and locals

vars == <<customers, products, orders, pc, entity, req, resp, txn>>

-----------------------------------------------------------------------------
(* Bounds of the model *)

\* rows per table in an initial database
MaxRows == 2
\* filter arguments supplied in one query
MaxFilters == 2

-----------------------------------------------------------------------------
(* Strings *)

NoVal == <<"<none>">>

\* SQL NULL / Python None for a nullable char column
NoPhone == NoVal

Digit == <<"0", "1", "2", "3", "4", "5", "6", "7", "8", "9">>

IsDigit(c) == \E i \in 1..10 : Digit[i] = c

DigitValue(c) == (CHOOSE i \in 1..10 : Digit[i] = c) - 1

\* str.lower() on the characters used
Lower(c) ==
    CASE c = "A" -> "a"
      [] c = "B" -> "b"
      [] c = "K" -> "k"
      [] c = "M" -> "m"
      [] OTHER -> c

\* str.strip(): leading and trailing whitespace removed
RECURSIVE LStrip(_)
LStrip(s) == IF s # <<>> /\ Head(s) = " " THEN LStrip(Tail(s)) ELSE s

RECURSIVE RStrip(_)
RStrip(s) ==
    IF s # <<>> /\ s[Len(s)] = " " THEN RStrip(SubSeq(s, 1, Len(s) - 1)) ELSE s

Strip(s) == RStrip(LStrip(s))

\* lookup startswith: NULL never matches
StartsWith(hay, prefix) ==
    /\ hay # NoVal
    /\ Len(prefix) <= Len(hay)
    /\ \A j \in 1..Len(prefix) : hay[j] = prefix[j]

\* lookup icontains: case-insensitive substring
IContains(hay, needle) ==
    /\ hay # NoVal
    /\ \E i \in 0..(Len(hay) - Len(needle)) :
          \A j \in 1..Len(needle) : Lower(hay[i + j]) = Lower(needle[j])

\* decimal parsing of a digit string
RECURSIVE ParseNum(_)
ParseNum(s) ==
    IF s = <<>> THEN 0
    ELSE 10 * ParseNum(SubSeq(s, 1, Len(s) - 1)) + DigitValue(s[Len(s)])

IsNumeric(s) == s # <<>> /\ \A j \in 1..Len(s) : IsDigit(s[j])

-----------------------------------------------------------------------------
(* Raw argument values and cleaned values *)

Null == [kind |-> "null", s |-> <<>>, n |-> 0, b |-> FALSE]
Str(s) == [kind |-> "str", s |-> s, n |-> 0, b |-> FALSE]
Num(n) == [kind |-> "num", s |-> <<>>, n |-> n, b |-> FALSE]
Bool(b) == [kind |-> "bool", s |-> <<>>, n |-> 0, b |-> b]
\* a cleaned value the form rejected
Invalid == [kind |-> "invalid", s |-> <<>>, n |-> 0, b |-> FALSE]

\* django_filters.constants.EMPTY_VALUES = ([], (), {}, "", None)
IsEmptyValue(v) == v.kind = "null" \/ (v.kind = "str" /\ v.s = <<>>)

\* Python truth value of a cleaned value (the `if value:` of the filter methods)
Truthy(v) ==
    CASE v.kind = "null" -> FALSE
      [] v.kind = "str" -> v.s # <<>>
      [] v.kind = "num" -> v.n # 0
      [] v.kind = "bool" -> v.b
      [] OTHER -> FALSE

\* CharFilter -> forms.CharField: None becomes "", a string is stripped
CleanChar(raw) ==
    CASE raw.kind = "null" -> Str(<<>>)
      [] raw.kind = "str" -> Str(Strip(raw.s))
      [] OTHER -> Invalid

\* NumberFilter -> forms.DecimalField: empty is None, a number or a numeric
\* string is the number, anything else is a validation error
CleanNumber(raw) ==
    CASE raw.kind = "null" -> Null
      [] raw.kind = "num" -> raw
      [] raw.kind = "str" ->
            IF Strip(raw.s) = <<>> THEN Null
            ELSE IF IsNumeric(Strip(raw.s)) THEN Num(ParseNum(Strip(raw.s)))
            ELSE Invalid
      [] OTHER -> Invalid

\* DateTimeFilter -> forms.DateTimeField: as a number of ticks
CleanDateTime(raw) == CleanNumber(raw)

\* BooleanFilter -> forms.NullBooleanField: never invalid, unknown is None
CleanBoolean(raw) ==
    CASE raw.kind = "bool" -> raw
      [] raw.kind = "str" /\ raw.s \in {<<"1">>, <<"t", "r", "u", "e">>} -> Bool(TRUE)
      [] raw.kind = "str" /\ raw.s \in {<<"0">>, <<"f", "a", "l", "s", "e">>} -> Bool(FALSE)
      [] OTHER -> Null

Clean(class, raw) ==
    CASE class = "Char" -> CleanChar(raw)
      [] class = "Number" -> CleanNumber(raw)
      [] class = "DateTime" -> CleanDateTime(raw)
      [] class = "Boolean" -> CleanBoolean(raw)

-----------------------------------------------------------------------------
(* Tables and querysets *)

Table(e) ==
    CASE e = "Customer" -> customers
      [] e = "Product" -> products
      [] e = "Order" -> orders

\* Model.objects.all(): one row per stored object, no DISTINCT
AllObjects(e) == [mult |-> [i \in DOMAIN Table(e) |-> 1], distinct |-> FALSE]

\* the mutant: gte and lte exclude the bound itself
StrictLookup(lookup, fieldValue, v) ==
    CASE lookup = "icontains" -> IContains(fieldValue, v.s)
      [] lookup = "startswith" -> StartsWith(fieldValue, v.s)
      [] lookup = "gte" -> fieldValue > v.n
      [] lookup = "lte" -> fieldValue < v.n
      [] lookup = "lt" -> fieldValue < v.n
      [] lookup = "exact" -> fieldValue = v.n

\* value comparison of one lookup expression
Lookup(lookup, fieldValue, v) ==
    CASE lookup = "icontains" -> IContains(fieldValue, v.s)
      [] lookup = "startswith" -> StartsWith(fieldValue, v.s)
      [] lookup = "gte" -> fieldValue >= v.n
      [] lookup = "lte" -> fieldValue <= v.n
      [] lookup = "lt" -> fieldValue < v.n
      [] lookup = "exact" -> fieldValue = v.n

\* the values a field path reaches from row i of entity e: one value for a
\* column of the row itself or of its foreign key, one per associated product
\* for a path through the many-to-many Order.products
PathValues(e, i, path) ==
    CASE e = "Customer" /\ path = "name" -> {<<i, customers[i].name>>}
      [] e = "Customer" /\ path = "email" -> {<<i, customers[i].email>>}
      [] e = "Customer" /\ path = "phone" -> {<<i, customers[i].phone>>}
      [] e = "Customer" /\ path = "created_at" -> {<<i, customers[i].created_at>>}
      [] e = "Product" /\ path = "name" -> {<<i, products[i].name>>}
      [] e = "Product" /\ path = "price" -> {<<i, products[i].price>>}
      [] e = "Product" /\ path = "stock" -> {<<i, products[i].stock>>}
      [] e = "Order" /\ path = "total_amount" -> {<<i, orders[i].total_amount>>}
      [] e = "Order" /\ path = "order_date" -> {<<i, orders[i].order_date>>}
      [] e = "Order" /\ path = "customer__name" ->
            {<<i, customers[orders[i].customer].name>>}
      [] e = "Order" /\ path = "products__name" ->
            {<<p, products[p].name>> : p \in orders[i].products}
      [] e = "Order" /\ path = "products__id" ->
            {<<p, p>> : p \in orders[i].products}

\* the number of joined rows of row i that satisfy path__lookup = v
JoinCount(e, i, path, lookup, v) ==
    Cardinality({x \in PathValues(e, i, path) : Lookup(lookup, x[2], v)})

\* QuerySet.filter(path__lookup=v): every call joins again, so the rows of
\* an object multiply by its matching joined rows
QsFilter(e, qs, path, lookup, v) ==
    [qs EXCEPT !.mult =
        [i \in DOMAIN qs.mult |-> qs.mult[i] * JoinCount(e, i, path, lookup, v)]]

\* the mutant: distinct() collapses the rows at once instead of marking the query
EagerDistinct(qs) ==
    [qs EXCEPT !.mult = [i \in DOMAIN qs.mult |-> IF qs.mult[i] > 0 THEN 1 ELSE 0]]

\* QuerySet.distinct(): marks the query SELECT DISTINCT
QsDistinct(qs) == [qs EXCEPT !.distinct = TRUE]

\* the rows the evaluated query returns, as a count per primary key
Rows(qs) ==
    [i \in DOMAIN qs.mult |->
        IF qs.distinct /\ qs.mult[i] > 0 THEN 1 ELSE qs.mult[i]]

-----------------------------------------------------------------------------
(* crm/filters.py *)

Declared(class, field, lookup) ==
    [class |-> class, field |-> field, lookup |-> lookup, method |-> "none"]

Method(class, method) ==
    [class |-> class, field |-> "none", lookup |-> "none", method |-> method]

CustomerFilter ==
    [name |-> Declared("Char", "name", "icontains"),
     email |-> Declared("Char", "email", "icontains"),
     created_at_gte |-> Declared("DateTime", "created_at", "gte"),
     created_at_lte |-> Declared("DateTime", "created_at", "lte"),
     phone_pattern |-> Method("Char", "filter_phone_pattern")]

ProductFilter ==
    [name |-> Declared("Char", "name", "icontains"),
     price_gte |-> Declared("Number", "price", "gte"),
     price_lte |-> Declared("Number", "price", "lte"),
     stock_gte |-> Declared("Number", "stock", "gte"),
     stock_lte |-> Declared("Number", "stock", "lte"),
     stock |-> Declared("Number", "stock", "exact"),
     low_stock |-> Method("Boolean", "filter_low_stock")]

OrderFilter ==
    [total_amount_gte |-> Declared("Number", "total_amount", "gte"),
     total_amount_lte |-> Declared("Number", "total_amount", "lte"),
     order_date_gte |-> Declared("DateTime", "order_date", "gte"),
     order_date_lte |-> Declared("DateTime", "order_date", "lte"),
     customer_name |-> Declared("Char", "customer__name", "icontains"),
     product_name |-> Declared("Char", "products__name", "icontains"),
     product_id |-> Method("Number", "filter_by_product_id")]

FilterSet(e) ==
    CASE e = "Customer" -> CustomerFilter
      [] e = "Product" -> ProductFilter
      [] e = "Order" -> OrderFilter

\* Meta.fields: the order the filters are applied in
MetaFields(e) ==
    CASE e = "Customer" ->
            <<"name", "email", "created_at_gte", "created_at_lte", "phone_pattern">>
      [] e = "Product" ->
            <<"name", "price_gte", "price_lte", "stock_gte", "stock_lte", "stock",
              "low_stock">>
      [] e = "Order" ->
            <<"total_amount_gte", "total_amount_lte", "order_date_gte",
              "order_date_lte", "customer_name", "product_name", "product_id">>

LowStockThreshold == 10

\* the mutant: the pattern may occur anywhere in the phone
phone_pattern_anywhere(queryset, value) ==
    IF Truthy(value)
    THEN QsFilter("Customer", queryset, "phone", "icontains", value)
    ELSE queryset

filter_phone_pattern(queryset, value) ==
    IF Truthy(value)
    THEN QsFilter("Customer", queryset, "phone", "startswith", value)
    ELSE queryset

\* the mutant: the threshold itself counts as low stock
low_stock_inclusive(queryset, value) ==
    IF Truthy(value)
    THEN QsFilter("Product", queryset, "stock", "lte", Num(LowStockThreshold))
    ELSE queryset

filter_low_stock(queryset, value) ==
    IF Truthy(value)
    THEN QsFilter("Product", queryset, "stock", "lt", Num(LowStockThreshold))
    ELSE queryset

filter_by_product_id(queryset, value) ==
    IF Truthy(value)
    THEN QsDistinct(QsFilter("Order", queryset, "products__id", "exact", value))
    ELSE queryset

\* the mutant: an empty value is compared like any other value
ApplyFilterNoSkip(e, f, qs, value) ==
    LET d == FilterSet(e)[f] IN
    CASE d.method = "filter_phone_pattern" -> filter_phone_pattern(qs, value)
      [] d.method = "filter_low_stock" -> filter_low_stock(qs, value)
      [] d.method = "filter_by_product_id" -> filter_by_product_id(qs, value)
      [] OTHER -> QsFilter(e, qs, d.field, d.lookup, value)

\* one declared filter applied to the queryset with its cleaned value: an
\* empty value skips it, a method filter calls the method, any other filter
\* narrows by its field path and lookup expression
ApplyFilter(e, f, qs, value) ==
    LET d == FilterSet(e)[f] IN
    IF IsEmptyValue(value) THEN qs
    ELSE CASE d.method = "filter_phone_pattern" -> filter_phone_pattern(qs, value)
           [] d.method = "filter_low_stock" -> filter_low_stock(qs, value)
           [] d.method = "filter_by_product_id" -> filter_by_product_id(qs, value)
           [] OTHER -> QsFilter(e, qs, d.field, d.lookup, value)

\* the filters named by `order` applied one after the other
RECURSIVE FilterInOrder(_, _, _, _)
FilterInOrder(e, qs, cleaned, order) ==
    IF order = <<>> THEN qs
    ELSE FilterInOrder(e, ApplyFilter(e, Head(order), qs, cleaned[Head(order)]),
                       cleaned, Tail(order))

\* the raw value the form sees for a declared filter: an absent key is None
RawOf(r, f) == IF f \in DOMAIN r THEN r[f] ELSE Null

\* the form's cleaned_data: one entry per declared filter, none for other names
CleanedData(e, r) ==
    [f \in DOMAIN FilterSet(e) |-> Clean(FilterSet(e)[f].class, RawOf(r, f))]

OkResponse(rows) == [status |-> "ok", errors |-> {}, rows |-> rows]

ErrorResponse(errs) == [status |-> "error", errors |-> errs, rows |-> <<>>]

\* the mutant: the filters with a valid value are applied, the others dropped
PartialQueryset(e, r) ==
    LET cleaned == CleanedData(e, r)
        valid == [f \in DOMAIN cleaned |->
                     IF cleaned[f] = Invalid THEN Null ELSE cleaned[f]]
    IN  OkResponse(Rows(FilterInOrder(e, AllObjects(e), valid, MetaFields(e))))

\* the mutant: a name the FilterSet does not declare is an error
StrictQueryset(e, r) ==
    LET cleaned == CleanedData(e, r)
        errs == {f \in DOMAIN cleaned : cleaned[f] = Invalid}
                    \cup (DOMAIN r \ DOMAIN cleaned)
    IN  IF errs # {}
        THEN ErrorResponse(errs)
        ELSE OkResponse(Rows(FilterInOrder(e, AllObjects(e), cleaned, MetaFields(e))))

\* the connection field's queryset: the form is validated as a whole, and
\* only a valid form is applied
ResolveQueryset(e, r) ==
    LET cleaned == CleanedData(e, r)
        errs == {f \in DOMAIN cleaned : cleaned[f] = Invalid}
    IN  IF errs # {}
        THEN ErrorResponse(errs)
        ELSE OkResponse(Rows(FilterInOrder(e, AllObjects(e), cleaned, MetaFields(e))))

-----------------------------------------------------------------------------
(* The databases and the filter arguments the queries are checked on *)

\* Customer.email is unique: the customer with primary key i has address u<i>
EmailOf(i) == <<"u", Digit[i + 1]>>

CustomerNameOf(i) == IF i % 2 = 1 THEN <<"A", "b">> ELSE <<"b">>

\* no phone, "+1234567890" and "123-456-7890"
Phones ==
    {NoPhone,
     <<"+", "1", "2", "3", "4", "5", "6", "7", "8", "9", "0">>,
     <<"1", "2", "3", "-", "4", "5", "6", "-", "7", "8", "9", "0">>}

CustomerTables == UNION {[1..n -> Phones] : n \in 0..MaxRows}

\* created_at is auto_now_add: it grows with the primary key
CustomerRow(i, phone) ==
    [name |-> CustomerNameOf(i), email |-> EmailOf(i), phone |-> phone,
     created_at |-> i]

ProductNameOf(i) ==
    CASE i = 1 -> <<"m">>
      [] i = 2 -> <<"M", "k">>
      [] OTHER -> <<"k">>

Prices == {1, 2}

Stocks == {LowStockThreshold - 1, LowStockThreshold}

ProductTables ==
    UNION {[1..n -> [price : Prices, stock : Stocks]] : n \in 0..MaxRows}

ProductRow(i, p) == [name |-> ProductNameOf(i), price |-> p.price, stock |-> p.stock]

\* the customers and products the orders of an order database refer to
CatalogCustomers == [i \in 1..2 |-> CustomerRow(i, NoPhone)]

CatalogProducts ==
    [i \in 1..2 |-> ProductRow(i, [price |-> i, stock |-> LowStockThreshold])]

RECURSIVE SumPrices(_, _)
SumPrices(tbl, ids) ==
    IF ids = {} THEN 0
    ELSE LET p == CHOOSE x \in ids : TRUE
         IN  tbl[p].price + SumPrices(tbl, ids \ {p})

OrderTables == UNION {[1..n -> (SUBSET (1..2)) \ {{}}] : n \in 0..MaxRows}

\* order_date defaults to now: it grows with the primary key
OrderRow(i, ps) ==
    [customer |-> IF i % 2 = 1 THEN 1 ELSE 2, products |-> ps,
     total_amount |-> SumPrices(CatalogProducts, ps), order_date |-> i]

Garbage == Str(<<"x">>)

\* the argument values tried, per filter name; foo is a name no FilterSet declares
CustomerArgs ==
    [name |-> {Null, Str(<<>>), Str(<<"a">>)},
     email |-> {Str(<<"1">>)},
     created_at_gte |-> {Str(<<>>), Num(2), Garbage},
     created_at_lte |-> {Null, Num(1)},
     phone_pattern |-> {Null, Str(<<>>), Str(<<" ">>), Str(<<"1">>), Str(<<"+", "1">>)},
     foo |-> {Garbage}]

ProductArgs ==
    [name |-> {Str(<<>>), Str(<<"m">>)},
     price_gte |-> {Null, Str(<<>>), Num(1), Num(2), Garbage},
     price_lte |-> {Num(0), Num(1), Str(<<"2">>), Garbage},
     stock_gte |-> {Num(LowStockThreshold), Garbage},
     stock_lte |-> {Null, Num(LowStockThreshold - 1)},
     stock |-> {Str(<<>>), Num(LowStockThreshold)},
     low_stock |-> {Null, Bool(TRUE), Bool(FALSE)},
     foo |-> {Garbage}]

OrderArgs ==
    [total_amount_gte |-> {Num(2), Garbage},
     total_amount_lte |-> {Null, Num(2)},
     order_date_gte |-> {Str(<<>>), Num(2)},
     order_date_lte |-> {Num(1)},
     customer_name |-> {Str(<<>>), Str(<<"a">>)},
     product_name |-> {Null, Str(<<>>), Str(<<"m">>), Str(<<"k">>)},
     product_id |-> {Str(<<>>), Num(0), Num(1), Num(2), Garbage},
     foo |-> {Garbage}]

UnknownFilter == "foo"

\* the requests that supply at most MaxFilters of the arguments
RequestsOver(args) ==
    UNION {{r \in [S -> UNION {args[f] : f \in S}] : \A f \in S : r[f] \in args[f]} :
              S \in {T \in SUBSET DOMAIN args : Cardinality(T) <= MaxFilters}}

CustomerRequests == RequestsOver(CustomerArgs)

ProductRequests == RequestsOver(ProductArgs)

OrderRequests == RequestsOver(OrderArgs)

NoRequest == [f \in {} |-> Null]

NoResponse == [status |-> "none", errors |-> {}, rows |-> <<>>]

-----------------------------------------------------------------------------
(* The query API: crm/schema.py, class Query *)

tables == <<customers, products, orders>>

Answer(e, r) ==
    /\ entity' = e
    /\ req' = r
    /\ resp' = ResolveQueryset(e, r)

AllCustomers ==
    /\ pc = "idle"
    /\ pc' = "returned"
    /\ \E r \in CustomerRequests : Answer("Customer", r)
    /\ UNCHANGED <<tables, txn>>

AllProducts ==
    /\ pc = "idle"
    /\ pc' = "returned"
    /\ \E r \in ProductRequests : Answer("Product", r)
    /\ UNCHANGED <<tables, txn>>

AllOrders ==
    /\ pc = "idle"
    /\ pc' = "returned"
    /\ \E r \in OrderRequests : Answer("Order", r)
    /\ UNCHANGED <<tables, txn>>

\* the response is delivered; the next query starts from nothing
Return ==
    /\ pc = "returned"
    /\ pc' = "idle"
    /\ entity' = "none"
    /\ req' = NoRequest
    /\ resp' = NoResponse
    /\ UNCHANGED <<tables, txn>>

\* a database in which one table varies over the bounded tables
InitTables ==
    \/ /\ \E t \in CustomerTables :
              customers = [i \in DOMAIN t |-> CustomerRow(i, t[i])]
       /\ products = <<>>
       /\ orders = <<>>
    \/ /\ customers = <<>>
       /\ \E t \in ProductTables :
              products = [i \in DOMAIN t |-> ProductRow(i, t[i])]
       /\ orders = <<>>
    \/ /\ customers = CatalogCustomers
       /\ products = CatalogProducts
       /\ \E t \in OrderTables :
              orders = [i \in DOMAIN t |-> OrderRow(i, t[i])]

Init ==
    /\ InitTables
    /\ pc = "idle"
    /\ entity = "none"
    /\ req = NoRequest
    /\ resp = NoResponse
    /\ txn = <<>>

Next == AllCustomers \/ AllProducts \/ AllOrders \/ Return

Spec == Init /\ [][Next]_vars

-----------------------------------------------------------------------------
(* The customer mutations: crm/schema.py, CreateCustomer and BulkCreateCustomers *)

\* concurrent mutation requests
MaxProcs == 2
\* customers in one BulkCreateCustomers input
MaxBulk == 2

Procs == 1..MaxProcs

\* phone_pattern of the mutations: ^\+?1?\d{9,15}$|^\d{3}-\d{3}-\d{4}$
AllDigits(s) == \A j \in 1..Len(s) : IsDigit(s[j])

PhoneFormatOk(s) ==
    \/ \E plus \in 0..1, one \in 0..1 :
          /\ Len(s) >= plus + one
          /\ plus = 1 => s[1] = "+"
          /\ one = 1 => s[plus + 1] = "1"
          /\ LET rest == SubSeq(s, plus + one + 1, Len(s))
             IN  Len(rest) >= 9 /\ Len(rest) <= 15 /\ AllDigits(rest)
    \/ /\ Len(s) = 12
       /\ s[4] = "-"
       /\ s[8] = "-"
       /\ AllDigits(SubSeq(s, 1, 3) \o SubSeq(s, 5, 7) \o SubSeq(s, 9, 12))

\* the CustomerInput values tried: two addresses; a phone of the required
\* format ("+1234567890") and one that is not
InputEmails == {EmailOf(1), EmailOf(2)}

InputPhones == {<<"+", "1", "2", "3", "4", "5", "6", "7", "8", "9", "0">>, <<"1", "2">>}

CustomerInputs == [email : InputEmails, phone : InputPhones]

NoInput == [email |-> NoVal, phone |-> NoPhone]

Idle ==
    [pc |-> "idle", input |-> NoInput, i |-> 0, pending |-> <<>>, aborted |-> FALSE,
     errors |-> {}]

\* rows another process sees: the committed table
Committed(email) == \E i \in DOMAIN customers : customers[i].email = email

InPending(q, email) == \E i \in DOMAIN txn[q].pending : txn[q].pending[i].email = email

\* Customer.objects.filter(email=...).exists() as process p sees it: the
\* committed rows and the rows of its own open transaction
Exists(p, email) == Committed(email) \/ InPending(p, email)

\* the mutant: the email column carries no unique index
NoUniqueIndex(p, email) == FALSE

\* Customer.email is unique: an INSERT of an address that a row visible to the
\* inserting transaction holds raises IntegrityError
UniqueViolation(p, email) == Committed(email) \/ InPending(p, email)

\* the unique index makes an INSERT wait for an open transaction that has
\* inserted the same address
LockedByOther(p, email) == \E q \in Procs \ {p} : InPending(q, email)

\* the primary key of the next row.  A key only names its row: the model
\* takes the least key no row holds, committed or not
NextId ==
    LET used == DOMAIN customers \cup UNION {DOMAIN txn[q].pending : q \in Procs}
    IN  CHOOSE k \in 1..(Cardinality(used) + 1) :
            k \notin used /\ \A j \in 1..(k - 1) : j \in used

NewCustomer(id, input) ==
    [name |-> CustomerNameOf(id), email |-> input.email, phone |-> input.phone,
     created_at |-> id]

Put(tbl, id, row) == [i \in DOMAIN tbl \cup {id} |-> IF i = id THEN row ELSE tbl[i]]

Merge(tbl, more) ==
    [i \in DOMAIN tbl \cup DOMAIN more |-> IF i \in DOMAIN more THEN more[i] ELSE tbl[i]]

\* the errors of CreateCustomer's validation
ValidationErrors(p, input) ==
    (IF Exists(p, input.email) THEN {"Email already exists"} ELSE {})
        \cup (IF input.phone # NoPhone /\ ~PhoneFormatOk(input.phone)
              THEN {"Invalid phone format"} ELSE {})

queryVars == <<pc, entity, req, resp>>

\* CreateCustomer.mutate up to `if errors`: the existence check and the phone check
CreateCustomerValidate(p) ==
    /\ txn[p].pc = "idle"
    /\ \E input \in CustomerInputs :
          LET errs == ValidationErrors(p, input)
          IN  txn' = [txn EXCEPT ![p] =
                        IF errs # {}
                        THEN [Idle EXCEPT !.pc = "done", !.input = input, !.errors = errs]
                        ELSE [Idle EXCEPT !.pc = "create", !.input = input]]
    /\ UNCHANGED <<tables, queryVars>>

\* CreateCustomer.mutate from `try`: Customer.objects.create in autocommit
CreateCustomerCreate(p) ==
    /\ txn[p].pc = "create"
    /\ LET input == txn[p].input IN
       \/ /\ UniqueViolation(p, input.email)
          /\ customers' = customers
          /\ txn' = [txn EXCEPT ![p].pc = "done", ![p].errors = {"IntegrityError"}]
       \/ /\ ~UniqueViolation(p, input.email)
          /\ LockedByOther(p, input.email)
          /\ customers' = customers
          /\ txn' = [txn EXCEPT ![p].pc = "done", ![p].errors = {"OperationalError"}]
       \/ /\ ~UniqueViolation(p, input.email)
          /\ ~LockedByOther(p, input.email)
          /\ customers' = Put(customers, NextId, NewCustomer(NextId, input))
          /\ txn' = [txn EXCEPT ![p].pc = "done"]
    /\ UNCHANGED <<products, orders, queryVars>>

\* BulkCreateCustomers.mutate enters transaction.atomic()
BulkCreateCustomersBegin(p) ==
    /\ txn[p].pc = "idle"
    /\ txn' = [txn EXCEPT ![p] = [Idle EXCEPT !.pc = "loop"]]
    /\ UNCHANGED <<tables, queryVars>>

\* the errors list of the bulk response holds one message per rejected
\* customer; the model keeps whether it holds any
Rejected == {"Customer rejected"}

\* one turn of the loop up to the create: the next customer_data is checked;
\* in a transaction the database has aborted every query raises
BulkCreateCustomersCheck(p) ==
    /\ txn[p].pc = "loop"
    /\ txn[p].i < MaxBulk
    /\ \E input \in CustomerInputs :
          LET ok == /\ ~txn[p].aborted
                    /\ ~Exists(p, input.email)
                    /\ ~(input.phone # NoPhone /\ ~PhoneFormatOk(input.phone))
          IN  txn' = [txn EXCEPT ![p].i = @ + 1,
                                 ![p].input = IF ok THEN input ELSE NoInput,
                                 ![p].errors = IF ok THEN @ ELSE Rejected,
                                 ![p].pc = IF ok THEN "bulk_create" ELSE "loop"]
    /\ UNCHANGED <<tables, queryVars>>

\* the create of the loop: the row is inserted in the open transaction; a
\* database error is caught by the loop, and whether it aborts the open
\* transaction depends on the database
BulkCreateCustomersCreate(p) ==
    /\ txn[p].pc = "bulk_create"
    /\ LET input == txn[p].input IN
       \/ /\ UniqueViolation(p, input.email) \/ LockedByOther(p, input.email)
          /\ \E ab \in BOOLEAN :
                txn' = [txn EXCEPT ![p].pc = "loop", ![p].input = NoInput,
                                   ![p].errors = Rejected, ![p].aborted = ab]
       \/ /\ ~UniqueViolation(p, input.email)
          /\ ~LockedByOther(p, input.email)
          /\ txn' = [txn EXCEPT ![p].pc = "loop", ![p].input = NoInput,
                                ![p].pending = Put(@, NextId, NewCustomer(NextId, input))]
    /\ UNCHANGED <<tables, queryVars>>

\* the input is exhausted and transaction.atomic() exits: the rows of the
\* transaction are committed, or lost with a transaction the database aborted
BulkCreateCustomersCommit(p) ==
    /\ txn[p].pc = "loop"
    /\ customers' = IF txn[p].aborted THEN customers ELSE Merge(customers, txn[p].pending)
    /\ txn' = [txn EXCEPT ![p].pc = "done", ![p].pending = <<>>]
    /\ UNCHANGED <<products, orders, queryVars>>

\* the response is delivered; the process takes its next request
Respond(p) ==
    /\ txn[p].pc = "done"
    /\ txn' = [txn EXCEPT ![p] = Idle]
    /\ UNCHANGED <<tables, queryVars>>

InitMutation ==
    /\ customers = <<>>
    /\ products = <<>>
    /\ orders = <<>>
    /\ pc = "idle"
    /\ entity = "none"
    /\ req = NoRequest
    /\ resp = NoResponse
    /\ txn = [p \in Procs |-> Idle]

NextMutation ==
    \E p \in Procs :
        \/ CreateCustomerValidate(p)
        \/ CreateCustomerCreate(p)
        \/ BulkCreateCustomersBegin(p)
        \/ BulkCreateCustomersCheck(p)
        \/ BulkCreateCustomersCreate(p)
        \/ BulkCreateCustomersCommit(p)
        \/ Respond(p)

SpecMutation == InitMutation /\ [][NextMutation]_vars

-----------------------------------------------------------------------------
(* The order mutation: crm/schema.py, CreateOrder, and crm/models.py, Order *)

\* the largest amount a DecimalField(max_digits=10, decimal_places=2) column
\* stores, scaled down
MaxAmount == 3

\* an OrderInput without order_date
NoDate == 0

\* no order in the response
NoOrder == 0

NoException == "none"

\* product_ids is a list: an id may repeat, or name no product
ProductIdLists == UNION {[1..n -> 1..(MaxRows + 1)] : n \in 0..MaxRows}

OrderInputs == [customer_id : 1..2, product_ids : ProductIdLists, order_date : {NoDate, 1}]

OrderMutationResponse(order, errors) == [order |-> order, errors |-> errors]

\* a value the total_amount column takes; a larger one raises when it is
\* prepared for the database
Storable(amount) == amount <= MaxAmount

Raise(tbl, exception) == [orders |-> tbl, raised |-> exception]

Done(tbl) == [orders |-> tbl, raised |-> NoException]

\* Order.calculate_total: the prices of the associated products, read now
calculate_total(linked) == SumPrices(products, linked)

\* Order.save on the instance inst with primary key id: the row is written,
\* and if the order has products the total is computed from them and written
\* again.  The associated products are rows of their own, which save leaves.
\* order_date is NOT NULL: writing None raises
OrderSave(tbl, id, inst) ==
    LET linked == IF id \in DOMAIN tbl THEN tbl[id].products ELSE {}
        Row(total) ==
            [customer |-> inst.customer, products |-> linked,
             total_amount |-> total, order_date |-> inst.order_date]
        total == calculate_total(linked)
    IN  IF inst.order_date = NoDate THEN Raise(tbl, "IntegrityError")
        ELSE IF ~Storable(inst.total_amount) THEN Raise(tbl, "InvalidOperation")
        ELSE IF linked = {} THEN Done(Put(tbl, id, Row(inst.total_amount)))
        ELSE IF ~Storable(total)
             THEN Raise(Put(tbl, id, Row(inst.total_amount)), "InvalidOperation")
        ELSE Done(Put(tbl, id, Row(total)))

\* order.products.set(products)
SetProducts(tbl, id, found) == Put(tbl, id, [tbl[id] EXCEPT !.products = found])

\* the body of the with block: create, set the products, total, save
CreateOrderBody(input, found) ==
    LET id == Len(orders) + 1
        Instance(total) ==
            [customer |-> input.customer_id, total_amount |-> total,
             order_date |-> input.order_date]
        created == OrderSave(orders, id, Instance(0))
    IN  IF created.raised # NoException THEN created
        ELSE OrderSave(SetProducts(created.orders, id, found), id,
                       Instance(SumPrices(products, found)))

\* without the transaction what was written before an exception stays
no_atomic(before, run) == run.orders

\* transaction.atomic(): an exception leaving the block rolls its writes back
atomic(before, run) == IF run.raised # NoException THEN before ELSE run.orders

\* CreateOrder.mutate: the orders it leaves and the response it returns
CreateOrderMutate(input) ==
    LET Refuse(error) ==
            [orders |-> orders, response |-> OrderMutationResponse(NoOrder, {error})]
        ids == input.product_ids
        found == {i \in DOMAIN products : \E j \in DOMAIN ids : ids[j] = i}
        run == CreateOrderBody(input, found)
    IN  IF input.customer_id \notin DOMAIN customers THEN Refuse("Customer not found")
        ELSE IF ids = <<>> THEN Refuse("At least one product must be selected")
        ELSE IF Cardinality(found) # Len(ids) THEN Refuse("One or more products not found")
        ELSE [orders |-> atomic(orders, run),
              response |-> IF run.raised # NoException
                           THEN OrderMutationResponse(NoOrder, {run.raised})
                           ELSE OrderMutationResponse(Len(orders) + 1, {})]

CreateOrder ==
    /\ pc = "idle"
    /\ Len(orders) < MaxRows
    /\ pc' = "returned"
    /\ entity' = "CreateOrder"
    /\ \E input \in OrderInputs :
          LET out == CreateOrderMutate(input)
          IN  /\ req' = input
              /\ orders' = out.orders
              /\ resp' = out.response
    /\ UNCHANGED <<customers, products, txn>>

\* one customer, any bounded table of products, no order yet
InitOrder ==
    /\ customers = [i \in 1..1 |-> CustomerRow(i, NoPhone)]
    /\ \E t \in ProductTables :
          products = [i \in DOMAIN t |-> ProductRow(i, t[i])]
    /\ orders = <<>>
    /\ pc = "idle"
    /\ entity = "none"
    /\ req = NoRequest
    /\ resp = NoResponse
    /\ txn = <<>>

NextOrder == CreateOrder \/ Return

SpecOrder == InitOrder /\ [][NextOrder]_vars

-----------------------------------------------------------------------------
(* Properties of the filters *)

Returned == pc = "returned"

\* the filters of the last query's FilterSet that the request supplies
Supplied == DOMAIN req \cap DOMAIN FilterSet(entity)

Without(r, f) == [g \in DOMAIN r \ {f} |-> r[g]]

\* a raw value that is null or the empty string
NoValue(raw) == raw = Null \/ raw = Str(<<>>)

\* a raw value a numeric or timestamp filter cannot parse
Malformed(raw) ==
    /\ raw.kind = "str"
    /\ \E j \in 1..Len(raw.s) : raw.s[j] # " " /\ ~IsDigit(raw.s[j])

\* the number a well-formed raw value stands for
NumberOf(raw) == IF raw.kind = "num" THEN raw.n ELSE ParseNum(Strip(raw.s))

WellFormedNumber(raw) ==
    raw.kind = "num" \/ (raw.kind = "str" /\ IsNumeric(Strip(raw.s)))

\* the collection holding every stored object of the table once
Everything(tbl) == [i \in DOMAIN tbl |-> 1]

\* the collection holding once exactly the objects that satisfy Keep
Exactly(tbl, Keep(_)) == [i \in DOMAIN tbl |-> IF Keep(i) THEN 1 ELSE 0]

Narrowed(rows) == (\E i \in DOMAIN rows : rows[i] = 0) /\ (\E i \in DOMAIN rows : rows[i] > 0)

\* the declared filters the request supplies with a value, in Meta.fields order
Valued(e, r) ==
    SelectSeq(MetaFields(e), LAMBDA f : f \in DOMAIN r /\ ~NoValue(r[f]))

\* C1: a declared filter supplied with a null or empty-string value never
\* narrows the result: the response equals that of the same request without
\* the filter (the filter absent), whatever the other supplied filters are,
\* and the collection returned is the one that the filters supplied with a
\* value select by themselves.
C1_EmptyValueIsNoOp ==
    Returned =>
        /\ \A f \in Supplied :
              NoValue(req[f]) => resp = ResolveQueryset(entity, Without(req, f))
        /\ resp.status = "ok" =>
              resp.rows = Rows(FilterInOrder(entity, AllObjects(entity),
                                             CleanedData(entity, req),
                                             Valued(entity, req)))

\* reached: a valueless filter next to a filter that narrowed the collection
C1_Witness ==
    /\ Returned
    /\ \E f \in Supplied : NoValue(req[f])
    /\ \E f \in Supplied : ~NoValue(req[f])
    /\ resp.status = "ok"
    /\ Narrowed(resp.rows)

\* C2: product_id = P alone over the orders returns exactly the orders that
\* have a product with identifier P, each once.
C2_ProductIdExact ==
    (Returned /\ entity = "Order" /\ DOMAIN req = {"product_id"}
        /\ req["product_id"].kind = "num") =>
        resp = OkResponse(Exactly(orders,
                   LAMBDA i : req["product_id"].n \in orders[i].products))

\* C3: with a non-empty product_name the result holds each order at most once.
C3_ProductNameAtMostOnce ==
    (Returned /\ entity = "Order" /\ "product_name" \in DOMAIN req
        /\ req["product_name"].kind = "str" /\ req["product_name"].s # <<>>
        /\ resp.status = "ok") =>
        \A i \in DOMAIN resp.rows : resp.rows[i] <= 1

\* C4: a request in which some declared numeric or timestamp filter has a
\* malformed value gets a validation error naming that filter and no
\* collection at all, whatever its other filters are.
C4_MalformedValueFailsWhole ==
    Returned =>
        \A f \in Supplied :
            (FilterSet(entity)[f].class \in {"Number", "DateTime"} /\ Malformed(req[f]))
                => (resp.status = "error" /\ f \in resp.errors /\ resp.rows = <<>>)

\* reached: a malformed value beside a valid filter that alone would narrow
C4_Witness ==
    /\ Returned
    /\ resp.status = "error"
    /\ \E f \in Supplied :
          /\ Malformed(req[f])
          /\ LET rest == ResolveQueryset(entity, Without(req, f))
             IN  rest.status = "ok" /\ Narrowed(rest.rows)

\* C5: two filters of one entity applied to the stored collection give the
\* same collection in either order.
C5_FilterOrderIndependent ==
    (Returned /\ resp.status = "ok") =>
        LET fs == FilterSet(entity)
            all == AllObjects(entity)
            Value(f) == Clean(fs[f].class, req[f])
            Then(f, g) ==
                Rows(ApplyFilter(entity, g, ApplyFilter(entity, f, all, Value(f)), Value(g)))
        IN  \A f, g \in Supplied : f # g => Then(f, g) = Then(g, f)

\* reached: product_name matching two products of an order, with product_id
C5_Witness ==
    /\ Returned
    /\ entity = "Order"
    /\ {"product_name", "product_id"} \subseteq DOMAIN req
    /\ req["product_id"].kind = "num"
    /\ resp.status = "ok"
    /\ \E i \in DOMAIN orders :
          /\ JoinCount("Order", i, "products__name", "icontains", req["product_name"]) = 2
          /\ resp.rows[i] = 1

\* C6: low_stock = true alone returns exactly the products with stock < 10;
\* low_stock = false, or no filter at all, returns every product.
C6_LowStock ==
    (Returned /\ entity = "Product") =>
        /\ (DOMAIN req = {"low_stock"} /\ req["low_stock"] = Bool(TRUE)) =>
              resp = OkResponse(Exactly(products, LAMBDA i : products[i].stock < 10))
        /\ (DOMAIN req = {"low_stock"} /\ req["low_stock"] = Bool(FALSE)) =>
              resp = OkResponse(Everything(products))
        /\ req = NoRequest => resp = OkResponse(Everything(products))

\* reached: low_stock = true over a product with stock 10 and one with less
C6_Witness ==
    /\ Returned
    /\ entity = "Product"
    /\ DOMAIN req = {"low_stock"}
    /\ req["low_stock"] = Bool(TRUE)
    /\ \E i \in DOMAIN products : products[i].stock = 10 /\ resp.rows[i] = 0
    /\ \E i \in DOMAIN products : products[i].stock < 10 /\ resp.rows[i] = 1

\* C7 as stated: a non-empty phone_pattern s alone returns exactly the
\* customers whose phone starts with s; no filter returns every customer.
C7_PhonePrefixAsSupplied ==
    (Returned /\ entity = "Customer") =>
        /\ (DOMAIN req = {"phone_pattern"} /\ req["phone_pattern"].kind = "str"
              /\ req["phone_pattern"].s # <<>>) =>
              resp = OkResponse(Exactly(customers,
                         LAMBDA i : StartsWith(customers[i].phone, req["phone_pattern"].s)))
        /\ req = NoRequest => resp = OkResponse(Everything(customers))

\* C7 as amended: phone_pattern s alone acts on s without its leading and
\* trailing whitespace: if that is non-empty, exactly the customers whose phone
\* starts with it are returned (none without a phone); if it is empty, every
\* customer is returned; no filter returns every customer.
C7_PhonePrefixStripped ==
    (Returned /\ entity = "Customer") =>
        /\ (DOMAIN req = {"phone_pattern"} /\ req["phone_pattern"].kind = "str") =>
              LET s == Strip(req["phone_pattern"].s)
              IN  resp = OkResponse(
                      IF s = <<>> THEN Everything(customers)
                      ELSE Exactly(customers,
                               LAMBDA i : customers[i].phone # NoPhone
                                            /\ StartsWith(customers[i].phone, s)))
        /\ req = NoRequest => resp = OkResponse(Everything(customers))

\* reached: a pattern that keeps one customer and drops a customer without phone
C7_Witness ==
    /\ Returned
    /\ entity = "Customer"
    /\ DOMAIN req = {"phone_pattern"}
    /\ req["phone_pattern"].kind = "str"
    /\ req["phone_pattern"].s # <<>>
    /\ \E i \in DOMAIN customers : customers[i].phone = NoPhone /\ resp.rows[i] = 0
    /\ \E i \in DOMAIN customers : resp.rows[i] = 1

C9_PriceRangeInclusive ==
    (Returned /\ entity = "Product" /\ DOMAIN req = {"price_gte", "price_lte"}
        /\ WellFormedNumber(req["price_gte"]) /\ WellFormedNumber(req["price_lte"])) =>
        LET lo == NumberOf(req["price_gte"])
            hi == NumberOf(req["price_lte"])
        IN  resp = OkResponse(Exactly(products,
                       LAMBDA i : lo <= products[i].price /\ products[i].price <= hi))

\* reached: a product priced exactly lo and another priced exactly hi, both kept
C9_Witness ==
    /\ Returned
    /\ entity = "Product"
    /\ DOMAIN req = {"price_gte", "price_lte"}
    /\ WellFormedNumber(req["price_gte"])
    /\ WellFormedNumber(req["price_lte"])
    /\ NumberOf(req["price_gte"]) < NumberOf(req["price_lte"])
    /\ \E i \in DOMAIN products :
          products[i].price = NumberOf(req["price_gte"]) /\ resp.rows[i] = 1
    /\ \E i \in DOMAIN products :
          products[i].price = NumberOf(req["price_lte"]) /\ resp.rows[i] = 1

-----------------------------------------------------------------------------
(* Properties of the mutations *)

\* C10: whatever the interleaving of CreateCustomer and BulkCreateCustomers
\* requests, no two stored customers (committed, or inserted in one open
\* transaction) share an email.
C10_EmailUnique ==
    /\ \A i, j \in DOMAIN customers :
          i # j => customers[i].email # customers[j].email
    /\ \A p \in Procs :
          \A i, j \in DOMAIN txn[p].pending :
              i # j => txn[p].pending[i].email # txn[p].pending[j].email

\* reached: two requests with one email both passed the existence check, one
\* stored its customer and the other's insert was refused
C10_Witness ==
    \E p, q \in Procs :
        /\ p # q
        /\ txn[p].pc = "done"
        /\ txn[p].errors = {}
        /\ txn[q].pc = "done"
        /\ txn[q].errors = {"IntegrityError"}
        /\ txn[q].input.email = txn[p].input.email
        /\ Committed(txn[p].input.email)

-----------------------------------------------------------------------------
(* Properties of the order mutation *)

\* C11: after any sequence of CreateOrder calls, every order a call returned
\* as created has at least one associated product and a stored total_amount
\* equal to the sum of the prices of exactly those products; a call that
\* returns errors leaves the stored orders as they were.
C11_CreateOrderTotals ==
    /\ [](\A i \in DOMAIN orders :
            /\ orders[i].products # {}
            /\ orders[i].total_amount = SumPrices(products, orders[i].products))
    /\ [][(pc = "idle" /\ entity' = "CreateOrder") =>
            /\ resp'.errors # {} => orders' = orders
            /\ resp'.errors = {} =>
                  /\ resp'.order \in DOMAIN orders' \ DOMAIN orders
                  /\ \A i \in DOMAIN orders : orders'[i] = orders[i]]_vars

\* reached: an order of two products is stored with their two prices as its
\* total, and a later call has returned errors
C11_Witness ==
    /\ pc = "returned"
    /\ entity = "CreateOrder"
    /\ resp.errors # {}
    /\ \E i \in DOMAIN orders :
          /\ orders[i].products = {1, 2}
          /\ orders[i].total_amount = products[1].price + products[2].price

====
